---- MODULE Spec2Model ----
(***************************************************************************)
(* VehicleKills (src/main.py): one asyncio event loop runs main(), which   *)
(* validates the command line, creates the event client and registers      *)
(* destroy_handler.  Every VehicleDestroy event starts one invocation of   *)
(* destroy_handler; an invocation runs without interruption except at the  *)
(* single await of the file, CLIENT.get_by_id (line 197).                  *)
(***************************************************************************)
EXTENDS Integers, Sequences, FiniteSets, TLC

\* ------------------------------------------------------------------ bounds
\* Number of VehicleDestroy events delivered in a run.
MaxEvents == 2

\* ------------------------------------------------------- Optional values
None == <<>>
Some(x) == <<x>>
Val(o) == o[1]

\* ------------------------------------------------------- lookup tables
FACTIONS == (1 :> "VS") @@ (2 :> "NC") @@ (3 :> "TR") @@ (4 :> "NS")

FACTIONS_I == ("VS" :> 1) @@ ("NC" :> 2) @@ ("TR" :> 3) @@ ("NS" :> 4)

FACTION_COLOURS ==
    (0 :> "white") @@ (1 :> "magenta") @@ (2 :> "blue") @@ (3 :> "red") @@ (4 :> "grey")

ZONES ==
    (2 :> "Indar") @@ (4 :> "Hossin") @@ (6 :> "Amerish") @@ (8 :> "Esamir") @@ (344 :> "Oshur")

ZONES_I ==
    ("Indar" :> 2) @@ ("Hossin" :> 4) @@ ("Amerish" :> 6) @@ ("Esamir" :> 8) @@ ("Oshur" :> 344)

WORLDS ==
    (1 :> "Connery") @@ (10 :> "Miller") @@ (13 :> "Cobalt") @@ (17 :> "Emerald")
    @@ (19 :> "Jaeger") @@ (40 :> "SolTech")

WORLDS_I ==
    ("Connery" :> 1) @@ ("Miller" :> 10) @@ ("Cobalt" :> 13) @@ ("Emerald" :> 17)
    @@ ("Jaeger" :> 19) @@ ("SolTech" :> 40)

VEHICLES ==
    (1 :> "Flash") @@ (2 :> "Sunderer") @@ (3 :> "Lightning") @@ (4 :> "Magrider")
    @@ (5 :> "Vanguard") @@ (6 :> "Prowler") @@ (7 :> "Scythe") @@ (8 :> "Reaver")
    @@ (9 :> "Mosquito") @@ (10 :> "Liberator") @@ (11 :> "Galaxy") @@ (12 :> "Harasser")

VEHICLE_COLOUR ==
    (1 :> "orange4") @@ (2 :> "orange4") @@ (3 :> "orange4") @@ (12 :> "orange4")
    @@ (4 :> "cyan") @@ (5 :> "cyan") @@ (6 :> "cyan")
    @@ (7 :> "green") @@ (8 :> "green") @@ (9 :> "green")
    @@ (10 :> "blue") @@ (11 :> "blue")

\* dict.get(key): the value, or None (rendered "None" by an f-string).
ColourGet(table, key) == IF key \in DOMAIN table THEN table[key] ELSE "None"

\* ------------------------------------------------------- inputs
\* Command-line values tried: an option is absent (None) or carries a string.
ArgServiceIds == {None, Some("s:example")}
ArgContinents == {None, Some("Atlantis")}
ArgServers == {None, Some("Mordor")}
ArgFactions == {None, Some("TR"), Some("XX")}

Argvs ==
    [service_id : ArgServiceIds, continent : ArgContinents,
     server : ArgServers, faction : ArgFactions]

\* Fields of the VehicleDestroy events delivered.  99 is no key of VEHICLES.
ZoneIds == {2, 4}
WorldIds == {19, 1}
VehicleIds == {2, 99}
CharIds == {101, 102}
TeamIds == {2, 3}

\* The k-th event of the run carries its own timestamp (seconds since the
\* epoch, UTC): 14:32:07, then 23:59:59, then times of the following day.
TimestampOf(k) == 52327 + (k - 1) * 34072

AllEvents(k) ==
    [timestamp : {TimestampOf(k)}, zone_id : ZoneIds, world_id : WorldIds,
     vehicle_id : VehicleIds, character_id : CharIds,
     attacker_character_id : CharIds, attacker_team_id : TeamIds]

\* The events delivered.  On Indar/Jaeger, Sunderer kills: Alice (101, team
\* 3) destroys Bob's, Bob (102, team 2) destroys Alice's, Alice destroys her
\* own.  Alice destroying Bob's vehicle is also delivered with an untracked
\* vehicle type on Indar/Jaeger, and as a Sunderer kill in every other zone
\* and world.
Events(k) ==
    {e \in AllEvents(k) :
        LET here == e.zone_id = 2 /\ e.world_id = 19
            who == <<e.attacker_character_id, e.character_id, e.attacker_team_id>>
        IN \/ /\ here
              /\ e.vehicle_id = 2
              /\ who \in {<<101, 102, 3>>, <<102, 101, 2>>, <<101, 101, 3>>}
           \/ /\ who = <<101, 102, 3>>
              /\ here # (e.vehicle_id = 2)}

\* What the census returns for a character id: nothing, or a character.
CharName == (101 :> "Alice") @@ (102 :> "Bob")
CharFaction == (101 :> 2) @@ (102 :> 3)
LookupResults(char_id) ==
    {None, Some([name |-> CharName[char_id], faction_id |-> CharFaction[char_id]])}

AllLookupResults == UNION {LookupResults(c) : c \in CharIds}

H == 1..MaxEvents

\* ------------------------------------------------------- state
VARIABLES
    argv,        \* the command line
    mainpc,      \* the process: "start" (main() still to run), "running"
                 \* (handler registered, loop.run_forever), "exited"
                 \* (SystemExit in main()), "closing" (interrupted, in
                 \* run_until_complete(CLIENT.close())), "closed", "crashed"
    CONTINENT, SERVER, FACTION,   \* main()'s configuration, Optional
    CLIENT,      \* None, Some("EventClient") or, once closed, Some("closed")
    CHARS,       \* character cache: char id -> formatted name
    pc,          \* per invocation: "idle", "returned", "await", "done", "raised"
    evt,         \* per invocation: its event, Optional
    idx,         \* per invocation: position in (attacker, victim) awaited, 0 if none
    output,      \* lines printed by CONS.print, oldest first
    lookups,     \* history: number of CLIENT.get_by_id calls per char id
    writes,      \* history: number of assignments CHARS[char_id] = ... per id
    got,         \* history: outcome of each invocation's own lookups
    overlap      \* history: <<h, g, c>>: h and g had lookups of c in flight together

vars ==
    <<argv, mainpc, CONTINENT, SERVER, FACTION, CLIENT, CHARS, pc, evt, idx,
      output, lookups, writes, got, overlap>>

config == <<argv, mainpc, CONTINENT, SERVER, FACTION, CLIENT>>

Init ==
    /\ argv \in Argvs
    /\ mainpc = "start"
    /\ CONTINENT = None
    /\ SERVER = None
    /\ FACTION = None
    /\ CLIENT = None
    /\ CHARS = <<>>
    /\ pc = [h \in H |-> "idle"]
    /\ evt = [h \in H |-> None]
    /\ idx = [h \in H |-> 0]
    /\ output = <<>>
    /\ lookups = [c \in CharIds |-> 0]
    /\ writes = [c \in CharIds |-> 0]
    /\ got = [h \in H |-> <<"-", "-">>]
    /\ overlap = {}

\* ------------------------------------------------------- main()
\* Python truthiness of an Optional string: not None and not empty.
Truthy(o) == o # None /\ Val(o) # ""

\* Mutant of ParseArgs: --faction declared without choices.
ParseArgsNoFactionChoices(a) ==
    IF a.service_id = None THEN None
    ELSE IF a.continent # None /\ Val(a.continent) \notin DOMAIN ZONES_I THEN None
    ELSE IF a.server # None /\ Val(a.server) \notin DOMAIN WORLDS_I THEN None
    ELSE Some([service_id |-> a.service_id,
               continent |-> IF a.continent = None THEN Some("Indar") ELSE a.continent,
               server |-> IF a.server = None THEN Some("Jaeger") ELSE a.server,
               faction |-> a.faction])

\* ap.parse_args(): argparse exits the process (SystemExit) when the required
\* option is missing or an option's value is not among its choices; otherwise
\* it yields the values, defaults filled in.
ParseArgs(a) ==
    IF a.service_id = None THEN None
    ELSE IF a.continent # None /\ Val(a.continent) \notin DOMAIN ZONES_I THEN None
    ELSE IF a.server # None /\ Val(a.server) \notin DOMAIN WORLDS_I THEN None
    ELSE IF a.faction # None /\ Val(a.faction) \notin DOMAIN FACTIONS_I THEN None
    ELSE Some([service_id |-> a.service_id,
               continent |-> IF a.continent = None THEN Some("Indar") ELSE a.continent,
               server |-> IF a.server = None THEN Some("Jaeger") ELSE a.server,
               faction |-> a.faction])

\* "Set up variables": the three walrus checks of main().
ContinentOf(args) ==
    IF Truthy(args.continent) /\ Val(args.continent) \in DOMAIN ZONES_I
    THEN Some(ZONES_I[Val(args.continent)]) ELSE None

ServerOf(args) ==
    IF Truthy(args.server) /\ Val(args.server) \in DOMAIN WORLDS_I
    THEN Some(WORLDS_I[Val(args.server)]) ELSE None

FactionOf(args) ==
    IF Truthy(args.faction) /\ Val(args.faction) \in DOMAIN FACTIONS_I
    THEN Some(FACTIONS_I[Val(args.faction)]) ELSE None

\* main() has no await: it runs as one step of the event loop.  It either
\* exits (argparse error, sys.exit) or creates CLIENT and registers the
\* handler.
Main ==
    /\ mainpc = "start"
    /\ LET parsed == ParseArgs(argv)
       IN IF parsed = None \/ ContinentOf(Val(parsed)) = None
                \/ ServerOf(Val(parsed)) = None
          THEN /\ mainpc' = "exited"
               /\ UNCHANGED <<CONTINENT, SERVER, FACTION, CLIENT>>
          ELSE /\ CONTINENT' = ContinentOf(Val(parsed))
               /\ SERVER' = ServerOf(Val(parsed))
               /\ FACTION' = FactionOf(Val(parsed))
               /\ CLIENT' = Some("EventClient")
               /\ mainpc' = "running"
    /\ UNCHANGED <<argv, CHARS, pc, evt, idx, output, lookups, writes, got, overlap>>

\* ------------------------------------------------------- __main__
\* The event loop runs its tasks in loop.run_forever() (line 220) and again
\* in loop.run_until_complete(CLIENT.close()) (line 229).
LoopRuns(phase) == phase \in {"running", "closing"}

\* KeyboardInterrupt leaves loop.run_forever() and the finally block runs
\* (lines 221-229).  main.exception() raises InvalidStateError when the task
\* of main() has not run yet, which ends the process in a traceback.
\* Otherwise "Exiting..." is printed (output holds the lines of
\* destroy_handler only: this line comes where mainpc turns "closing") and,
\* CLIENT being set, the loop is run again until CLIENT.close() completes.
Interrupt ==
    /\ mainpc \in {"start", "running"}
    /\ mainpc' = IF mainpc = "start" THEN "crashed" ELSE "closing"
    /\ UNCHANGED <<argv, CONTINENT, SERVER, FACTION, CLIENT, CHARS, pc, evt, idx,
                   output, lookups, writes, got, overlap>>

\* CLIENT.close() completes: run_until_complete returns and the process ends.
\* Invocations still suspended are never resumed.
CloseDone ==
    /\ mainpc = "closing"
    /\ mainpc' = "closed"
    /\ CLIENT' = Some("closed")
    /\ UNCHANGED <<argv, CONTINENT, SERVER, FACTION, CHARS, pc, evt, idx, output,
                   lookups, writes, got, overlap>>

\* ------------------------------------------------------- destroy_handler
\* Mutant of WrongBattlefield: the server is not compared.
WrongZoneOnly(e, continent, server) == e.zone_id # continent

\* line 178
WrongBattlefield(e, continent, server) ==
    e.zone_id # continent \/ e.world_id # server

\* Mutant of GoodFaction: the attacker's team is not compared.
GoodFactionAnyTeam(faction, e) == faction # None /\ Val(faction) # 0

\* line 182: FACTION is None or a faction id.
GoodFaction(faction, e) ==
    IF faction # None /\ Val(faction) # 0 /\ e.attacker_team_id = Val(faction)
    THEN TRUE ELSE FALSE

\* Offset of the machine's local time zone from UTC, in seconds.
LocalUtcOffset == 3600

Digits == <<"0", "1", "2", "3", "4", "5", "6", "7", "8", "9">>
TwoDigits(n) == Digits[(n \div 10) + 1] \o Digits[(n % 10) + 1]

\* lines 185-186: the UTC timestamp in local time, as %H:%M:%S.
FormatTimestamp(ts) ==
    LET local == (ts + LocalUtcOffset) % 86400
    IN TwoDigits(local \div 3600) \o ":" \o TwoDigits((local % 3600) \div 60)
       \o ":" \o TwoDigits(local % 60)

\* Mutant of VehicleGet: a default name for the types VEHICLES lacks.
VehicleGetDefault(vehicle_id) ==
    IF vehicle_id \in DOMAIN VEHICLES THEN Some(VEHICLES[vehicle_id])
    ELSE Some("Vehicle")

\* line 188: VEHICLES.get(evt.vehicle_id)
VehicleGet(vehicle_id) ==
    IF vehicle_id \in DOMAIN VEHICLES THEN Some(VEHICLES[vehicle_id]) ELSE None

\* line 192: vehicle is the name line 188 found.
VehicleMarkup(vehicle_id, vehicle) ==
    "[" \o ColourGet(VEHICLE_COLOUR, vehicle_id) \o "]" \o vehicle
    \o "[/" \o ColourGet(VEHICLE_COLOUR, vehicle_id) \o "]"

\* Mutant of Participants: the victim is resolved first.
ParticipantsVictimFirst(e) == <<e.character_id, e.attacker_character_id>>

\* line 195: the participants in the order they are resolved.
Participants(e) == <<e.attacker_character_id, e.character_id>>

\* Mutant of Uncached: the cache is not consulted.
UncachedAlways(char_id, chars) == TRUE

\* Mutant of Uncached: every id is taken to be cached.
UncachedNever(char_id, chars) == FALSE

\* line 196
Uncached(char_id, chars) == char_id \notin DOMAIN chars

\* Mutant of FormatChar: the faction colour is left out.
FormatCharPlain(char) == char.name

\* lines 200-201
FormatChar(char) ==
    "[" \o ColourGet(FACTION_COLOURS, char.faction_id) \o "]" \o char.name
    \o "[/" \o ColourGet(FACTION_COLOURS, char.faction_id) \o "]"

\* Mutant of StoreChar: a not-found result is cached as a placeholder.
StoreCharPoisoned(chars, char_id, result) ==
    IF result = None THEN (char_id :> "Uncached Character") @@ chars
    ELSE (char_id :> FormatChar(Val(result))) @@ chars

\* lines 198-201: the cache after a lookup of char_id came back with result.
StoreChar(chars, char_id, result) ==
    IF result = None THEN chars
    ELSE (char_id :> FormatChar(Val(result))) @@ chars

\* Mutant of CharsGet: another default text.
CharsGetUnknown(chars, char_id) ==
    IF char_id \in DOMAIN chars THEN chars[char_id] ELSE "Unknown"

\* Mutant of CharsGet: the cache is not read when the line is rendered.
CharsGetNoCache(chars, char_id) == "Uncached Character"

\* lines 204-205: CHARS.get(id, "Uncached Character")
CharsGet(chars, char_id) ==
    IF char_id \in DOMAIN chars THEN chars[char_id] ELSE "Uncached Character"

\* line 208
KilledBy(good_faction) ==
    IF good_faction THEN "[underline]killed by[/underline]" ELSE "killed by"

\* lines 204-210: the parts of the line printed for event e, read from the
\* cache as it is when the line is printed, and the style it is printed in.
\* h tags the line with the invocation that printed it.
Line(h, e, faction, chars) ==
    [h |-> h,
     timestamp |-> FormatTimestamp(e.timestamp),
     vehicle |-> VehicleMarkup(e.vehicle_id, Val(VehicleGet(e.vehicle_id))),
     victim |-> CharsGet(chars, e.character_id),
     killed_by |-> KilledBy(GoodFaction(faction, e)),
     attacker |-> CharsGet(chars, e.attacker_character_id),
     style |-> "white"]

\* line 210: the f-string.
LineText(l) ==
    l.timestamp \o ": " \o l.vehicle \o "(" \o l.victim \o ") " \o l.killed_by
    \o " " \o l.attacker

\* The char id invocation h is suspended on.
Awaited(h) == Participants(Val(evt[h]))[idx[h]]

InFlight(c) == {h \in H : pc[h] = "await" /\ Awaited(h) = c}

\* lines 195-210 from position `from` of the loop, with the cache `chars`:
\* run to the next cache miss, where get_by_id is called and the invocation
\* suspends, or to the end of the loop, where the line is printed.
Resume(h, e, from, chars) ==
    LET ids == Participants(e)
        miss == {k \in from..2 : Uncached(ids[k], chars)}
    IN IF miss # {}
       THEN LET k == CHOOSE m \in miss : \A n \in miss : m <= n
            IN /\ pc' = [pc EXCEPT ![h] = "await"]
               /\ idx' = [idx EXCEPT ![h] = k]
               /\ lookups' = [lookups EXCEPT ![ids[k]] = @ + 1]
               /\ overlap' = overlap \cup
                     UNION {{<<h, g, ids[k]>>, <<g, h, ids[k]>>} :
                            g \in InFlight(ids[k]) \ {h}}
               /\ output' = output
       ELSE /\ pc' = [pc EXCEPT ![h] = "done"]
            /\ idx' = [idx EXCEPT ![h] = 0]
            /\ output' = Append(output, Line(h, e, FACTION, chars))
            /\ UNCHANGED <<lookups, overlap>>

\* An event arrives and its invocation runs up to its first await or return.
\* Invocations are numbered in arrival order.  Events are delivered while
\* loop.run_forever() runs; once the client is being closed none is.
Dispatch(h, e) ==
    /\ mainpc = "running"
    /\ pc[h] = "idle"
    /\ \A g \in H : g < h => pc[g] # "idle"
    /\ evt' = [evt EXCEPT ![h] = Some(e)]
    /\ IF WrongBattlefield(e, Val(CONTINENT), Val(SERVER))
          \/ VehicleGet(e.vehicle_id) = None
       THEN /\ pc' = [pc EXCEPT ![h] = "returned"]
            /\ UNCHANGED <<idx, output, lookups, overlap>>
       ELSE Resume(h, e, 1, CHARS)
    /\ UNCHANGED <<config, CHARS, writes, got>>

\* get_by_id returns to invocation h: the result is cached if there is one,
\* and the invocation runs on to its next await or to the print.
LookupReturn(h, result) ==
    /\ LoopRuns(mainpc)
    /\ pc[h] = "await"
    /\ result \in LookupResults(Awaited(h))
    /\ LET chars == StoreChar(CHARS, Awaited(h), result)
       IN /\ CHARS' = chars
          /\ writes' = IF result = None THEN writes
                       ELSE [writes EXCEPT ![Awaited(h)] = @ + 1]
          /\ got' = [got EXCEPT ![h][idx[h]] =
                        IF result = None THEN "missing" ELSE "found"]
          /\ Resume(h, Val(evt[h]), idx[h] + 1, chars)
    /\ UNCHANGED <<config, evt>>

\* get_by_id raises (the request fails): nothing in destroy_handler catches
\* it, so the invocation ends at line 197.
LookupRaise(h) ==
    /\ LoopRuns(mainpc)
    /\ pc[h] = "await"
    /\ pc' = [pc EXCEPT ![h] = "raised"]
    /\ got' = [got EXCEPT ![h][idx[h]] = "raised"]
    /\ UNCHANGED <<config, CHARS, evt, idx, output, lookups, writes, overlap>>

Next ==
    \/ Main
    \/ \E h \in H : \E e \in Events(h) : Dispatch(h, e)
    \/ \E h \in H : \E result \in AllLookupResults : LookupReturn(h, result)
    \/ \E h \in H : LookupRaise(h)
    \/ Interrupt
    \/ CloseDone

Spec == Init /\ [][Next]_vars

\* ======================================================= properties
Lines == {output[i] : i \in 1..Len(output)}

LinesOf(h) == {i \in 1..Len(output) : output[i].h = h}

\* The text line l shows for participant k (1 attacker, 2 victim).
Shown(l, k) == IF k = 1 THEN l.attacker ELSE l.victim

\* The texts the line of invocation h shows for character c.
ShownFor(h, c) ==
    {Shown(output[i], k) : i \in LinesOf(h),
                           k \in {n \in 1..2 : Participants(Val(evt[h]))[n] = c}}

\* Invocation h takes its first step here, for event e.
Arrives(h) == pc[h] = "idle" /\ pc'[h] # "idle"

\* The lookup invocation h is suspended on comes back in this step.
Returns(h) == pc[h] = "await" /\ got'[h] # got[h] /\ pc'[h] # "raised"

\* Some lookup of c has come back not-found.
NotFoundBefore(c) ==
    \E g \in H : \E k \in 1..2 :
        /\ got[g][k] = "missing"
        /\ Participants(Val(evt[g]))[k] = c

\* ------------------------------------------------------- C1
\* C1 (as claimed): for every character id at most one lookup is in flight
\* at any time, so concurrent invocations that reference the same uncached
\* id cause one lookup only.
C1_AtMostOneLookupInFlight ==
    \A c \in CharIds : Cardinality(InFlight(c)) <= 1

\* ------------------------------------------------------- C2
\* C2 (as claimed): invocations that had lookups of the same id in flight
\* together show the same text for that id in their lines.
C2_SameOutcomeForAllRequesters ==
    \A t \in overlap :
        (pc[t[1]] = "done" /\ pc[t[2]] = "done")
            => ShownFor(t[1], t[3]) = ShownFor(t[2], t[3])

\* ------------------------------------------------------- C3
\* C3: no step issues a lookup for an id that is in the cache when the
\* lookup would be issued; as entries are never removed, once an id is
\* cached its lookup count never grows again.
C3_NoLookupOnceCached ==
    [][\A c \in CharIds :
          (c \in DOMAIN CHARS \/ c \in DOMAIN CHARS') => lookups'[c] = lookups[c]]_vars

\* C3 witness: an invocation printed its line for an attacker it never looked
\* up, because the id was cached when it checked, after one lookup in all.
C3_Witness ==
    \E h \in H :
        /\ pc[h] = "done"
        /\ got[h][1] = "-"
        /\ Val(evt[h]).attacker_character_id \in DOMAIN CHARS
        /\ lookups[Val(evt[h]).attacker_character_id] = 1

\* ------------------------------------------------------- C4
\* C4: a lookup that comes back not-found leaves the cache as it was; and an
\* invocation that then needs the id while it is still uncached (as attacker
\* when its event arrives, as victim when it resumes from the attacker's
\* lookup) issues a new lookup for it and suspends on it.
C4_NotFoundDoesNotPoison ==
    [][/\ \A h \in H :
            (Returns(h) /\ got'[h][idx[h]] = "missing") => CHARS' = CHARS
       /\ \A h \in H :
            (Arrives(h) /\ pc'[h] # "returned") =>
                LET c == Val(evt'[h]).attacker_character_id
                IN (NotFoundBefore(c) /\ c \notin DOMAIN CHARS) =>
                      /\ lookups'[c] = lookups[c] + 1
                      /\ pc'[h] = "await"
                      /\ idx'[h] = 1
       /\ \A h \in H :
            (Returns(h) /\ idx[h] = 1) =>
                LET c == Val(evt[h]).character_id
                IN (NotFoundBefore(c)' /\ c \notin DOMAIN CHARS') =>
                      /\ lookups'[c] = lookups[c] + 1
                      /\ pc'[h] = "await"
                      /\ idx'[h] = 2]_vars

\* C4 witness: the attacker lookup of g came back not-found, the id is not
\* cached, and a later invocation h, whose lookup was never in flight
\* together with one of g, is suspended on a new lookup of the same id.
C4_Witness ==
    \E g \in H : \E h \in H :
        /\ g < h
        /\ got[g][1] = "missing"
        /\ pc[h] = "await"
        /\ idx[h] = 1
        /\ Awaited(h) = Val(evt[g]).attacker_character_id
        /\ <<g, h, Awaited(h)>> \notin overlap
        /\ Awaited(h) \notin DOMAIN CHARS
        /\ lookups[Awaited(h)] >= 2

\* ------------------------------------------------------- C5
\* C5: an event whose zone differs from CONTINENT or whose world differs from
\* SERVER makes the handler return at once: no lookup is issued, the cache is
\* unchanged and nothing is printed, in the step it arrives and ever after.
C5_OffBattlefieldEventYieldsNothing ==
    [][\A h \in H :
          LET e == Val(evt'[h])
              off == e.zone_id # Val(CONTINENT) \/ e.world_id # Val(SERVER)
          IN /\ (Arrives(h) /\ off) =>
                    /\ pc'[h] = "returned"
                    /\ lookups' = lookups
                    /\ CHARS' = CHARS
                    /\ output' = output
             /\ (evt'[h] # None /\ off /\ ~Arrives(h)) =>
                    /\ pc'[h] = "returned"
                    /\ pc[h] = "returned"
                    /\ LinesOf(h)' = {}
                    /\ got'[h] = <<"-", "-">>]_vars

\* C5 witness: an event of another world was dropped while the other
\* invocation was suspended on a lookup.
C5_Witness ==
    \E h \in H : \E g \in H :
        /\ pc[h] = "returned"
        /\ Val(evt[h]).world_id # Val(SERVER)
        /\ Val(evt[h]).zone_id = Val(CONTINENT)
        /\ pc[g] = "await"
        /\ output = <<>>

\* ------------------------------------------------------- C6
\* C6: an event of the configured zone and world whose vehicle type is no
\* key of VEHICLES makes the handler return without a lookup or a line; one
\* whose type is a key goes on to resolution (a lookup of one of its own
\* participants) or to the print.  An invocation's event is never changed,
\* and every line printed shows its event's timestamp and vehicle type.
C6_VehicleTypeFilter ==
    [][/\ \A h \in H :
            LET e == Val(evt'[h])
                on == e.zone_id = Val(CONTINENT) /\ e.world_id = Val(SERVER)
            IN (Arrives(h) /\ on) =>
                  IF e.vehicle_id \notin DOMAIN VEHICLES
                  THEN /\ pc'[h] = "returned"
                       /\ lookups' = lookups
                       /\ CHARS' = CHARS
                       /\ output' = output
                  ELSE \/ /\ pc'[h] = "await"
                          /\ Awaited(h)' \in {e.attacker_character_id, e.character_id}
                          /\ lookups'[Awaited(h)'] = lookups[Awaited(h)'] + 1
                       \/ /\ pc'[h] = "done"
                          /\ Len(output') = Len(output) + 1
                          /\ output'[Len(output')].h = h
       /\ \A h \in H : evt[h] # None => evt'[h] = evt[h]
       /\ \A l \in Lines' :
            LET e == Val(evt'[l.h])
            IN /\ e.vehicle_id \in DOMAIN VEHICLES
               /\ l.vehicle = VehicleMarkup(e.vehicle_id, VEHICLES[e.vehicle_id])
               /\ l.timestamp = FormatTimestamp(e.timestamp)
               /\ e.zone_id = Val(CONTINENT)
               /\ e.world_id = Val(SERVER)]_vars

\* C6 witness: an event of an untracked type was dropped, and a Sunderer
\* kill was printed as such at 15:32:07 local time.
C6_Witness ==
    /\ \E h \in H :
          /\ pc[h] = "returned"
          /\ Val(evt[h]).zone_id = Val(CONTINENT)
          /\ Val(evt[h]).world_id = Val(SERVER)
          /\ Val(evt[h]).vehicle_id = 99
    /\ \E l \in Lines :
          /\ l.vehicle = "[orange4]Sunderer[/orange4]"
          /\ l.timestamp = "15:32:07"

\* ------------------------------------------------------- C7
\* The sentinel identity of the specification, formatted as a cached
\* character is: name "Unknown", neutral faction 0.
SentinelText == FormatChar([name |-> "Unknown", faction_id |-> 0])

\* C7 (as claimed): an invocation one of whose lookups raised or came back
\* not-found does not end in an error, and its line shows that participant
\* as the sentinel "Unknown" in the neutral faction colour.
C7_SentinelRendering ==
    \A h \in H : \A k \in 1..2 :
        got[h][k] \in {"missing", "raised"} =>
            /\ pc[h] \in {"await", "done"}
            /\ \A i \in LinesOf(h) : Shown(output[i], k) = SentinelText

\* ------------------------------------------------------- C8
\* C8 (as claimed): the entry of a character id is assigned at most once in
\* a run.
C8_WriteOnce ==
    \A c \in CharIds : writes[c] <= 1

\* ------------------------------------------------------- C9
\* C9: the connective of every printed line is the underlined "killed by"
\* when a home faction is configured and equals the event's attacker team
\* id, and the plain "killed by" otherwise; so never underlined when FACTION
\* is None.
C9_HomeFactionEmphasis ==
    \A l \in Lines :
        l.killed_by =
            IF FACTION # None /\ Val(evt[l.h]).attacker_team_id = Val(FACTION)
            THEN "[underline]killed by[/underline]"
            ELSE "killed by"

\* C9 witness: with a home faction configured, one line is emphasised (the
\* attacker is of the home faction) and another is not.
C9_Witness ==
    /\ FACTION = Some(3)
    /\ \E l \in Lines :
          /\ l.killed_by = "[underline]killed by[/underline]"
          /\ Val(evt[l.h]).attacker_team_id = 3
    /\ \E l \in Lines :
          /\ l.killed_by = "killed by"
          /\ Val(evt[l.h]).attacker_team_id = 2

\* ------------------------------------------------------- C10
\* An option given on the command line with a value outside its enumeration.
InvalidName(o, table) == o # None /\ Val(o) \notin DOMAIN table

\* C10: when the continent, server or faction name given is not in its
\* enumeration, main() never gets to create the client or register the
\* handler: it is still to run or the process has ended (exited, or crashed
\* on an interrupt that came before main() ran), CLIENT is None and no event
\* was handled.
C10_ConfigErrorsFatal ==
    (\/ InvalidName(argv.continent, ZONES_I)
     \/ InvalidName(argv.server, WORLDS_I)
     \/ InvalidName(argv.faction, FACTIONS_I)) =>
        /\ mainpc \in {"start", "exited", "crashed"}
        /\ CLIENT = None
        /\ \A h \in H : pc[h] = "idle" /\ evt[h] = None
        /\ output = <<>>
        /\ \A c \in CharIds : lookups[c] = 0

\* C10 witness: the process has exited on a command line whose only fault is
\* the faction name.
C10_Witness ==
    /\ mainpc = "exited"
    /\ CLIENT = None
    /\ argv.service_id # None
    /\ argv.continent = None
    /\ argv.server = None
    /\ InvalidName(argv.faction, FACTIONS_I)

\* ------------------------------------------------------- C11
\* C11 (as claimed): once the operator has interrupted the process no
\* suspended invocation resumes and no further line is printed, and when the
\* process has ended the client, if one was created, is closed.  (The claim
\* also has the process end normally; an interrupt that comes before main()
\* has run ends it in "crashed" instead.)
C11_ShutdownAbandonsInFlight ==
    [][/\ mainpc \in {"closing", "closed"} => (pc' = pc /\ output' = output)
       /\ (mainpc' = "closed" /\ CLIENT' # None) => CLIENT' = Some("closed")]_vars

\* ------------------------------------------------------- C12
\* C12: an invocation has a line in the output only when it is done, and
\* then each of its participants either had a lookup of this invocation
\* come back (found or not-found) or was never looked up by it because the
\* id was in the cache when it was checked; an invocation that is suspended
\* on a lookup, or whose lookup raised, has no line.
C12_RenderAfterResolve ==
    \A h \in H :
        LinesOf(h) # {} =>
            /\ pc[h] = "done"
            /\ \A k \in 1..2 :
                  \/ got[h][k] \in {"found", "missing"}
                  \/ /\ got[h][k] = "-"
                     /\ Participants(Val(evt[h]))[k] \in DOMAIN CHARS

\* C12 witness: a line was printed by an invocation that looked up both of
\* its participants, one after the other.
C12_Witness ==
    \E h \in H :
        /\ LinesOf(h) # {}
        /\ got[h][1] \in {"found", "missing"}
        /\ got[h][2] \in {"found", "missing"}
        /\ Val(evt[h]).attacker_character_id # Val(evt[h]).character_id

\* ------------------------------------------------------- C13
\* C13 (as claimed): an invocation whose event passed the filters and which
\* has no lookup outstanding has printed exactly one line, whatever its
\* lookups came back with (found, not-found or a failure).
C13_OneLinePerAcceptedEvent ==
    \A h \in H :
        pc[h] \in {"done", "raised"} => Cardinality(LinesOf(h)) = 1

\* ------------------------------------------------------- C14
\* C14: an invocation suspends only on a lookup.  Its event having passed
\* the filters, it prints its line in the step the event arrives when both
\* participants are cached, and otherwise suspends on a lookup of an
\* uncached participant without printing; it prints later only in a step in
\* which its own lookup comes back, appending its line to whatever the other
\* invocations have printed meanwhile.
C14_SuspendOnlyOnLookup ==
    [][\A h \in H :
          /\ (Arrives(h) /\ pc'[h] # "returned") =>
                LET e == Val(evt'[h])
                IN IF {e.attacker_character_id, e.character_id} \subseteq DOMAIN CHARS
                   THEN /\ pc'[h] = "done"
                        /\ Len(output') = Len(output) + 1
                        /\ output'[Len(output')].h = h
                   ELSE /\ pc'[h] = "await"
                        /\ Awaited(h)' \notin DOMAIN CHARS
                        /\ lookups'[Awaited(h)'] = lookups[Awaited(h)'] + 1
                        /\ output' = output
          /\ (LinesOf(h)' # LinesOf(h)) =>
                /\ Arrives(h) \/ Returns(h)
                /\ LinesOf(h) = {}
                /\ LinesOf(h)' = {Len(output) + 1}
          /\ pc'[h] = "await" => (idx'[h] \in 1..2 /\ LinesOf(h)' = {})]_vars

\* C14 witness: a later event, whose participants were both cached, has its
\* line printed while an earlier invocation is still suspended on a lookup.
C14_Witness ==
    \E g \in H : \E h \in H :
        /\ g < h
        /\ pc[g] = "await"
        /\ pc[h] = "done"
        /\ got[h] = <<"-", "-">>
        /\ LinesOf(h) # {}
        /\ LinesOf(g) = {}

\* ------------------------------------------------------- C15
\* The lookups of character c that came back with a character.
FoundLookups(c) ==
    {hk \in H \X (1..2) :
        /\ got[hk[1]][hk[2]] = "found"
        /\ Participants(Val(evt[hk[1]]))[hk[2]] = c}

\* C15: the cached ids are exactly those assigned at some time (no entry is
\* ever removed); every assignment of an entry answers a lookup that an
\* invocation made for a participant of its own event and that came back
\* with a character; and the entry is that character's name in the markup of
\* its faction colour.
C15_CacheSoundness ==
    /\ DOMAIN CHARS = {c \in CharIds : writes[c] >= 1}
    /\ \A c \in CharIds : writes[c] = Cardinality(FoundLookups(c))
    /\ \A c \in DOMAIN CHARS :
          CHARS[c] \in
             {"[" \o FACTION_COLOURS[Val(r).faction_id] \o "]" \o Val(r).name
              \o "[/" \o FACTION_COLOURS[Val(r).faction_id] \o "]" :
              r \in LookupResults(c) \ {None}}

\* C15 witness: both characters are cached, in their faction colours.
C15_Witness ==
    /\ DOMAIN CHARS = {101, 102}
    /\ CHARS[101] = "[blue]Alice[/blue]"
    /\ CHARS[102] = "[red]Bob[/red]"

\* ------------------------------------------------------- C16
\* C16: an invocation whose attacker is uncached when its event arrives
\* suspends on the attacker's lookup and issues none for the victim; it is
\* suspended on at most the one lookup idx names; the victim is checked in
\* the step the attacker's lookup comes back, against the cache as it is
\* then: cached, no lookup of the victim is issued and the line is printed,
\* uncached, the victim's lookup is issued.
C16_AttackerThenVictim ==
    [][\A h \in H :
          LET e == Val(evt'[h])
              a == e.attacker_character_id
              v == e.character_id
          IN /\ (Arrives(h) /\ pc'[h] # "returned" /\ a \notin DOMAIN CHARS) =>
                    /\ pc'[h] = "await"
                    /\ idx'[h] = 1
                    /\ lookups'[a] = lookups[a] + 1
                    /\ v # a => lookups'[v] = lookups[v]
             /\ (Returns(h) /\ idx[h] = 1) =>
                    IF v \in DOMAIN CHARS'
                    THEN /\ pc'[h] = "done"
                         /\ got'[h][2] = "-"
                         /\ lookups' = lookups
                    ELSE /\ pc'[h] = "await"
                         /\ idx'[h] = 2
                         /\ lookups'[v] = lookups[v] + 1
             /\ (pc'[h] = "await" /\ idx'[h] = 1) => got'[h] = <<"-", "-">>
             /\ got'[h][2] # "-" => got'[h][1] \in {"-", "found", "missing"}]_vars

\* C16 witness: the victim was uncached when h's event arrived (its only
\* lookup was made by a later invocation g), was cached by g while h was
\* suspended on its attacker, and h printed without looking the victim up.
C16_Witness ==
    \E h \in H : \E g \in H :
        /\ h < g
        /\ pc[h] = "done"
        /\ got[h][1] \in {"found", "missing"}
        /\ got[h][2] = "-"
        /\ Val(evt[h]).character_id # Val(evt[h]).attacker_character_id
        /\ lookups[Val(evt[h]).character_id] = 1
        /\ <<g, 1>> \in FoundLookups(Val(evt[h]).character_id)

\* ------------------------------------------------------- C17
\* Invocation h is the only one started, for a kill of one's own vehicle.
AloneSelfKill(h) ==
    /\ \A g \in H \ {h} : pc[g] = "idle"
    /\ pc[h] \notin {"idle", "returned"}
    /\ Val(evt[h]).attacker_character_id = Val(evt[h]).character_id

\* C17: with no other invocation started, a kill of one's own vehicle by an
\* uncached character costs one lookup when the lookup finds the character
\* (the line is then printed without a second one), and two when the first
\* comes back not-found.
C17_SelfDestruction ==
    \A h \in H :
        AloneSelfKill(h) =>
            LET c == Val(evt[h]).character_id
            IN /\ got[h][1] = "found" =>
                    (lookups[c] = 1 /\ pc[h] = "done" /\ got[h][2] = "-")
               /\ got[h][1] = "missing" =>
                    /\ lookups[c] = 2
                    /\ \/ pc[h] = "await" /\ idx[h] = 2
                       \/ got[h][2] # "-"

\* C17 witness: the first lookup came back not-found, the second found the
\* character, and the line was printed after two lookups.
C17_Witness ==
    \E h \in H :
        /\ AloneSelfKill(h)
        /\ got[h] = <<"missing", "found">>
        /\ pc[h] = "done"
        /\ lookups[Val(evt[h]).character_id] = 2

\* ------------------------------------------------------- C18
\* C18: the line an invocation prints shows, for each participant, the cache
\* entry of the id as it is when the line is printed, and "Uncached
\* Character" when there is none, whatever its own lookups came back with.
C18_RenderTimeRead ==
    [][\A h \in H :
          (pc[h] # "done" /\ pc'[h] = "done") =>
              LET l == output'[Len(output')]
                  ids == <<Val(evt'[h]).attacker_character_id,
                           Val(evt'[h]).character_id>>
              IN /\ l.h = h
                 /\ \A k \in 1..2 :
                       Shown(l, k) = IF ids[k] \in DOMAIN CHARS'
                                     THEN CHARS'[ids[k]]
                                     ELSE "Uncached Character"]_vars

\* C18 witness: h's own lookup of its attacker came back not-found, another
\* invocation cached the attacker before h printed, and h's line shows the
\* resolved name.
C18_Witness ==
    \E h \in H :
        /\ pc[h] = "done"
        /\ got[h][1] = "missing"
        /\ \E i \in LinesOf(h) : output[i].attacker = "[blue]Alice[/blue]"

====
